---- MODULE Spec2Model ----
(***************************************************************************)
(* Model of yt2t/main.py: the command-line pipeline that turns a YouTube   *)
(* URL or a local audio/video file into text.                              *)
(*                                                                         *)
(* Python strings are sequences of one-character strings, so that          *)
(* str.endswith, str.replace, str.join and the URL regular expression are  *)
(* computed character by character.  Optional[str] is a sequence of length *)
(* 0 (None) or 1 (the string).  The libraries (pytube, moviepy, pydub,     *)
(* wave, whisper, youtube_transcript_api) are the environment: each call   *)
(* either succeeds or raises, chosen nondeterministically.                 *)
(***************************************************************************)
EXTENDS Integers, Sequences, FiniteSets, TLC

(* ------------------------------ bounds -------------------------------- *)

\* longest local path, counted in path tokens
MaxTokens == 3
\* most caption entries of a transcript
MaxEntries == 2

(* --------------------------- string helpers --------------------------- *)

None == <<>>
Some(x) == <<x>>

MP3 == <<".", "m", "p", "3">>
MP4 == <<".", "m", "p", "4">>
WAV == <<".", "w", "a", "v">>
TXT == <<".", "t", "x", "t">>
SLASH == <<"/">>
SPACE == <<" ">>
NEWLINE == <<"\n">>

\* s[i .. i+Len(pat)-1] = pat
MatchesAt(s, i, pat) ==
    /\ i + Len(pat) - 1 <= Len(s)
    /\ SubSeq(s, i, i + Len(pat) - 1) = pat

\* str.endswith
EndsWith(s, suffix) ==
    /\ Len(s) >= Len(suffix)
    /\ SubSeq(s, Len(s) - Len(suffix) + 1, Len(s)) = suffix

\* str.replace(old, new): every non-overlapping occurrence, left to right
RECURSIVE ReplaceFrom(_, _, _, _)
ReplaceFrom(s, i, old, new) ==
    IF i > Len(s) THEN <<>>
    ELSE IF MatchesAt(s, i, old)
         THEN new \o ReplaceFrom(s, i + Len(old), old, new)
         ELSE <<s[i]>> \o ReplaceFrom(s, i + 1, old, new)

Replace(s, old, new) == ReplaceFrom(s, 1, old, new)

\* sep.join(parts)
RECURSIVE JoinFrom(_, _, _)
JoinFrom(sep, parts, i) ==
    IF i > Len(parts) THEN <<>>
    ELSE (IF i > 1 THEN sep ELSE <<>>) \o parts[i] \o JoinFrom(sep, parts, i + 1)

JoinNoSep(sep, parts) == JoinFrom(<<>>, parts, 1)

Join(sep, parts) == JoinFrom(sep, parts, 1)

(* ------------------------ is_valid_youtube_url ------------------------ *)

HTTP == <<"h", "t", "t", "p">>
COLON_SLASH_SLASH == <<":", "/", "/">>
WWW_YOUTUBE_COM ==
    <<"w", "w", "w", ".", "y", "o", "u", "t", "u", "b", "e", ".", "c", "o", "m">>
YOUTU == <<"y", "o", "u", "t", "u">>
BE == <<"b", "e">>

\* (https?\:\/\/)?
SchemeAlternatives ==
    {<<>>} \cup {HTTP \o s \o COLON_SLASH_SLASH : s \in {<<>>, <<"s">>}}

\* (www\.youtube\.com|youtu\.?be)
HostAlternatives ==
    {WWW_YOUTUBE_COM} \cup {YOUTU \o dot \o BE : dot \in {<<>>, <<".">>}}

\* .+$ : one or more characters other than a newline, up to the end of the
\* string or up to a newline that ends the string
DotPlusToEnd(rest) ==
    \E k \in 1..Len(rest) :
        /\ \A j \in 1..k : rest[j] # "\n"
        /\ \/ k = Len(rest)
           \/ k = Len(rest) - 1 /\ rest[Len(rest)] = "\n"

RegexMatch(url) ==
    \E scheme \in SchemeAlternatives, host \in HostAlternatives :
        LET prefix == scheme \o host \o SLASH IN
        /\ MatchesAt(url, 1, prefix)
        /\ DotPlusToEnd(SubSeq(url, Len(prefix) + 1, Len(url)))

is_valid_youtube_url(url) == RegexMatch(url)

(* ------------------------------- inputs ------------------------------- *)

PathTokens == {<<"a">>, SLASH, MP3, MP4, WAV, TXT}

\* the strings made of at most n path tokens
RECURSIVE TokenStrings(_)
TokenStrings(n) ==
    IF n = 0 THEN {<<>>}
    ELSE LET shorter == TokenStrings(n - 1) IN
         shorter \cup {p \o t : p \in shorter, t \in PathTokens}

PathSources == TokenStrings(MaxTokens)

UrlPrefixes == {<<>>, <<"a">>}
UrlSchemes == {<<>>, HTTP \o COLON_SLASH_SLASH, HTTP \o <<"s">> \o COLON_SLASH_SLASH}
UrlHosts ==
    { WWW_YOUTUBE_COM, YOUTU \o <<".">> \o BE, YOUTU \o BE,
      YOUTU \o BE \o <<".", "c", "o", "m">>, <<"a", ".">> \o BE }
UrlTails ==
    { <<>>, SLASH, SLASH \o <<"a">>, SLASH \o <<"a", "?", "a">>,
      SLASH \o NEWLINE, SLASH \o <<"a">> \o NEWLINE, SLASH \o NEWLINE \o <<"a">> }

UrlSources ==
    {p \o s \o h \o t : p \in UrlPrefixes, s \in UrlSchemes, h \in UrlHosts, t \in UrlTails}

Sources == PathSources \cup UrlSources

\* a regular file has a name and the name does not end in a slash
CanBeFile(path) == path # <<>> /\ path[Len(path)] # "/"

\* caption texts, and the transcripts made of them
EntryTexts == {<<>>, <<"a">>, <<"b", " ", "c">>}

RECURSIVE EntryLists(_)
EntryLists(n) ==
    IF n = 0 THEN {<<>>}
    ELSE LET shorter == EntryLists(n - 1) IN
         shorter \cup {es \o <<t>> : es \in shorter, t \in EntryTexts}

Transcripts == EntryLists(MaxEntries)

\* texts the speech-recognition model may return
AsrTexts == {<<>>, <<"t">>}

\* yt.video_id: letters, digits, - and _ only
VideoId == <<"i", "d">>

(* ----------------------------- exceptions ----------------------------- *)

ExceptionClasses ==
    { "Exception", "ValueError", "TypeError", "OSError", "RegexMatchError",
      "TranscriptsDisabled", "NoTranscriptFound" }

Unhandled == "unhandled"

MsgInvalidSource == "Invalid source. Please provide a valid YouTube URL or local audio file path."
MsgMainMp4 == "Failed to convert MP4 to WAV."
MsgMainDownload == "Failed to download or convert YouTube video to audio."
MsgDownload == "Error downloading YouTube video"
MsgMp3 == "Error converting MP3 to WAV"
MsgMp4 == "Error converting MP4 to WAV"
MsgTranscribe == "Error transcribing audio"
MsgRetrieving == "Retrieving transcript for video"
MsgNoTranscript == "No transcript available for video"
MsgTranscript == "Error retrieving transcript"

ErrorMessages ==
    { MsgInvalidSource, MsgMainMp4, MsgMainDownload, MsgDownload, MsgMp3, MsgMp4,
      MsgTranscribe, MsgNoTranscript, MsgTranscript }

\* the except clauses: the message printed for a caught exception
download_except(e) ==
    IF e \in ExceptionClasses THEN MsgDownload ELSE Unhandled

convert_mp3_except(e) ==
    IF e \in ExceptionClasses THEN MsgMp3 ELSE Unhandled

convert_mp4_except(e) ==
    IF e \in ExceptionClasses THEN MsgMp4 ELSE Unhandled

convert_audio_to_text_narrow(e) ==
    IF e = "ValueError" THEN MsgTranscribe ELSE Unhandled

convert_audio_to_text_except(e) ==
    IF e \in ExceptionClasses THEN MsgTranscribe ELSE Unhandled

get_youtube_transcript_except(e) ==
    IF e \in {"TranscriptsDisabled", "NoTranscriptFound"} THEN MsgNoTranscript
    ELSE IF e \in ExceptionClasses THEN MsgTranscript
    ELSE Unhandled

(* ------------------------- decisions of the code ---------------------- *)

\* main: the order of the tests on args.source
ClassifyUrlFirst(src, isf) ==
    IF is_valid_youtube_url(src) THEN "url"
    ELSE IF isf THEN "local"
    ELSE "invalid"

Classify(src, isf) ==
    IF isf THEN "local"
    ELSE IF is_valid_youtube_url(src) THEN "url"
    ELSE "invalid"

\* main: args.ignore_transcript leaves text None, which leads to the download
AlwaysFetch(ignore) == "fetch"

UrlFirstStage(ignore) == IF ignore THEN "download" ELSE "fetch"

\* main: "if text is None" after the transcript lookup
NeverFallBack(t) == "print"

AfterTranscript(t) == IF t = None THEN "download" ELSE "print"

\* main: the file handed to convert_audio_to_text for a local .mp4
MainAudioFileSource(src, wav) == src

MainAudioFile(src, wav) == wav

\* convert_audio_to_text: the dispatch on the extension
DispatchNoElse(path) ==
    IF EndsWith(path, WAV) THEN "wav"
    ELSE IF EndsWith(path, MP3) THEN "mp3"
    ELSE IF EndsWith(path, MP4) THEN "mp4"
    ELSE "wav"

Dispatch(path) ==
    IF EndsWith(path, WAV) THEN "wav"
    ELSE IF EndsWith(path, MP3) THEN "mp3"
    ELSE IF EndsWith(path, MP4) THEN "mp4"
    ELSE "unsupported"

\* the paths the two conversions write
convert_mp3_to_wav_path(mp3_path) == Replace(mp3_path, MP3, WAV)

convert_mp4_to_wav_path(mp4_path) == Replace(mp4_path, MP4, WAV)

\* download_youtube_audio_as_mp3: os.remove(temp_file)
KeepTempFile(files, f) == files

DiskAfterRemove(files, f) == files \ {f}

(* -------------------------------- state ------------------------------- *)

VARIABLES
    source,             \* args.source
    isfile,             \* os.path.isfile(args.source)
    ignore_transcript,  \* args.ignore_transcript
    pc,                 \* the statement main has reached
    audio_file,         \* main's audio_file
    audio_path,         \* convert_audio_to_text's audio_path
    temp_file,          \* download_youtube_audio_as_mp3's temp_file
    text,               \* main's text
    fetched,            \* what get_youtube_transcript returned
    entries,            \* the caption entries transcript.fetch() returned
    disk,               \* the audio files on disk
    printed,            \* the diagnostic messages printed so far
    output,             \* the text printed by print(text)
    calls,              \* the functions and library stages invoked, in order
    convs,              \* the conversions to .wav that were run
    escaped             \* an exception left main

inputs == <<source, isfile, ignore_transcript>>

vars ==
    <<source, isfile, ignore_transcript, pc, audio_file, audio_path, temp_file, text,
      fetched, entries, disk, printed, output, calls, convs, escaped>>

Init ==
    /\ source \in Sources
    /\ isfile \in {f \in BOOLEAN : f => CanBeFile(source)}
    /\ ignore_transcript \in BOOLEAN
    /\ pc = "main"
    /\ audio_file = None
    /\ audio_path = None
    /\ temp_file = None
    /\ text = None
    /\ fetched = None
    /\ entries = None
    /\ disk = IF isfile THEN {source} ELSE {}
    /\ printed = <<>>
    /\ output = None
    /\ calls = <<>>
    /\ convs = <<>>
    /\ escaped = FALSE

\* an exception no except clause caught leaves main
Escape ==
    /\ escaped' = TRUE
    /\ pc' = "crashed"

(* ---------------------------- main, 159-183 --------------------------- *)

Main ==
    /\ pc = "main"
    /\ LET kind == Classify(source, isfile) IN
       /\ pc' = IF kind = "local"
                THEN (IF EndsWith(source, MP4) THEN "main_mp4" ELSE "cat_dispatch")
                ELSE IF kind = "url" THEN UrlFirstStage(ignore_transcript)
                ELSE "done"
       /\ audio_file' = IF kind = "local" /\ ~EndsWith(source, MP4)
                        THEN Some(source) ELSE audio_file
       /\ printed' = IF kind = "invalid" THEN Append(printed, MsgInvalidSource)
                     ELSE printed
    /\ audio_path' = audio_file'
    /\ UNCHANGED <<inputs, temp_file, text, fetched, entries, disk, output, calls,
                   convs, escaped>>

\* main, 160-164: convert_mp4_to_wav(args.source)
MainConvertMp4 ==
    /\ pc = "main_mp4"
    /\ calls' = Append(calls, "convert_mp4_to_wav")
    /\ \E e \in {"ok", "Exception"} :
          IF e = "ok"
          THEN LET wav == convert_mp4_to_wav_path(source) IN
               /\ disk' = disk \cup {wav}
               /\ convs' = Append(convs, [fn |-> "convert_mp4_to_wav", in |-> source,
                                          out |-> Some(wav)])
               /\ audio_file' = Some(MainAudioFile(source, wav))
               /\ audio_path' = audio_file'
               /\ pc' = "cat_dispatch"
               /\ UNCHANGED <<printed, escaped>>
          ELSE /\ convs' = Append(convs, [fn |-> "convert_mp4_to_wav", in |-> source,
                                          out |-> None])
               /\ IF convert_mp4_except(e) = Unhandled
                  THEN Escape /\ UNCHANGED printed
                  ELSE /\ printed' = printed \o <<convert_mp4_except(e), MsgMainMp4>>
                       /\ pc' = "done"
                       /\ UNCHANGED escaped
               /\ UNCHANGED <<disk, audio_file, audio_path>>
    /\ UNCHANGED <<inputs, temp_file, text, fetched, entries, output>>

(* --------------------- get_youtube_transcript, 127-139 ---------------- *)

GetYoutubeTranscript ==
    /\ pc = "fetch"
    /\ calls' = Append(calls, "get_youtube_transcript")
    /\ \/ \E es \in Transcripts :
             /\ entries' = Some(es)
             /\ fetched' = Some(Join(SPACE, es))
             /\ printed' = Append(printed, MsgRetrieving)
             /\ UNCHANGED escaped
             /\ text' = fetched'
             /\ pc' = AfterTranscript(text')
       \/ \E e \in {"RegexMatchError", "TranscriptsDisabled", "NoTranscriptFound", "Exception"},
             found \in BOOLEAN :
             \* found: find_transcript returned and transcript.fetch() raised
             /\ found => e = "Exception"
             /\ UNCHANGED <<entries, fetched>>
             /\ IF get_youtube_transcript_except(e) = Unhandled
                THEN Escape /\ UNCHANGED <<printed, text>>
                ELSE /\ printed' = printed
                                   \o (IF found THEN <<MsgRetrieving>> ELSE <<>>)
                                   \o <<get_youtube_transcript_except(e)>>
                     /\ text' = None
                     /\ pc' = AfterTranscript(text')
                     /\ UNCHANGED escaped
    /\ UNCHANGED <<inputs, audio_file, audio_path, temp_file, disk, output, convs>>

(* ------------------ download_youtube_audio_as_mp3, 43-65 -------------- *)

\* the except clause of the download, then main 175-177
DownloadFailed(e) ==
    IF download_except(e) = Unhandled
    THEN Escape /\ UNCHANGED printed
    ELSE /\ printed' = printed \o <<download_except(e), MsgMainDownload>>
         /\ pc' = "done"
         /\ UNCHANGED escaped

\* 46-57: the audio stream is downloaded to <video_id>.mp4
DownloadStream ==
    /\ pc = "download"
    /\ calls' = Append(calls, "download_youtube_audio_as_mp3")
    /\ \E e \in {"ok", "RegexMatchError", "Exception"} :
          IF e = "ok"
          THEN /\ temp_file' = Some(VideoId \o MP4)
               /\ disk' = disk \cup {VideoId \o MP4}
               /\ pc' = "dl_export"
               /\ UNCHANGED <<printed, escaped>>
          ELSE /\ DownloadFailed(e)
               /\ UNCHANGED <<temp_file, disk>>
    /\ UNCHANGED <<inputs, audio_file, audio_path, text, fetched, entries, output, convs>>

\* 58-60: the .mp4 is re-encoded to <video_id>.mp3
DownloadExport ==
    /\ pc = "dl_export"
    /\ \E e \in {"ok", "Exception"} :
          IF e = "ok"
          THEN /\ disk' = disk \cup {VideoId \o MP3}
               /\ pc' = "dl_remove"
               /\ UNCHANGED <<printed, escaped>>
          ELSE /\ DownloadFailed(e)
               /\ UNCHANGED disk
    /\ UNCHANGED <<inputs, audio_file, audio_path, temp_file, text, fetched, entries,
                   output, calls, convs>>

\* 61-62: os.remove(temp_file); return output_path; main 178
DownloadRemove ==
    /\ pc = "dl_remove"
    /\ \E e \in {"ok", "OSError"} :
          IF e = "ok"
          THEN /\ disk' = DiskAfterRemove(disk, temp_file[1])
               /\ audio_file' = Some(VideoId \o MP3)
               /\ pc' = "cat_dispatch"
               /\ UNCHANGED <<printed, escaped>>
          ELSE /\ DownloadFailed(e)
               /\ UNCHANGED <<disk, audio_file>>
    /\ audio_path' = audio_file'
    /\ UNCHANGED <<inputs, temp_file, text, fetched, entries, output, calls, convs>>

(* ---------------------- convert_audio_to_text, 99-124 ----------------- *)

\* the except clause of convert_audio_to_text: text is None
TranscribeFailed(e) ==
    IF convert_audio_to_text_except(e) = Unhandled
    THEN Escape /\ UNCHANGED <<printed, text>>
    ELSE /\ printed' = Append(printed, convert_audio_to_text_except(e))
         /\ text' = None
         /\ pc' = "print"
         /\ UNCHANGED escaped

\* 100-109: the dispatch on the extension
CatDispatch ==
    /\ pc = "cat_dispatch"
    /\ calls' = Append(calls, "convert_audio_to_text")
    /\ LET d == Dispatch(audio_path[1]) IN
          IF d = "unsupported"
          THEN TranscribeFailed("ValueError")
          ELSE /\ pc' = IF d = "wav" THEN "cat_len" ELSE "cat_convert"
               /\ UNCHANGED <<printed, text, escaped>>
    /\ UNCHANGED <<inputs, audio_file, audio_path, temp_file, fetched, entries, disk,
                   output, convs>>

\* 103, 105: convert_mp3_to_wav (68-76) or convert_mp4_to_wav (79-88)
CatConvert ==
    /\ pc = "cat_convert"
    /\ LET path == audio_path[1]
           mp3 == EndsWith(path, MP3)
           fn == IF mp3 THEN "convert_mp3_to_wav" ELSE "convert_mp4_to_wav"
           wav == IF mp3 THEN convert_mp3_to_wav_path(path)
                  ELSE convert_mp4_to_wav_path(path)
       IN
       /\ calls' = Append(calls, fn)
       /\ \E e \in {"ok", "Exception"} :
             LET msg == IF mp3 THEN convert_mp3_except(e) ELSE convert_mp4_except(e) IN
             IF e = "ok"
             THEN /\ disk' = disk \cup {wav}
                  /\ convs' = Append(convs, [fn |-> fn, in |-> path, out |-> Some(wav)])
                  /\ audio_path' = Some(wav)
                  /\ pc' = "cat_len"
                  /\ UNCHANGED <<printed, escaped>>
             ELSE /\ convs' = Append(convs, [fn |-> fn, in |-> path, out |-> None])
                  /\ UNCHANGED disk
                  /\ IF msg = Unhandled
                     THEN Escape /\ UNCHANGED <<printed, audio_path>>
                     ELSE /\ printed' = Append(printed, msg)
                          /\ audio_path' = None
                          /\ pc' = "cat_len"
                          /\ UNCHANGED escaped
    /\ UNCHANGED <<inputs, audio_file, temp_file, text, fetched, entries, output>>

\* 111: get_audio_length(audio_path); wave.open(None) raises
CatAudioLength ==
    /\ pc = "cat_len"
    /\ calls' = Append(calls, "get_audio_length")
    /\ \E e \in (IF audio_path = None THEN {"TypeError"} ELSE {"ok", "Exception"}) :
          IF e = "ok"
          THEN /\ pc' = "cat_model"
               /\ UNCHANGED <<printed, text, escaped>>
          ELSE TranscribeFailed(e)
    /\ UNCHANGED <<inputs, audio_file, audio_path, temp_file, fetched, entries, disk,
                   output, convs>>

\* 112-115: whisper.load_model
CatLoadModel ==
    /\ pc = "cat_model"
    /\ calls' = Append(calls, "load_model")
    /\ \E e \in {"ok", "Exception"} :
          IF e = "ok"
          THEN /\ pc' = "cat_transcribe"
               /\ UNCHANGED <<printed, text, escaped>>
          ELSE TranscribeFailed(e)
    /\ UNCHANGED <<inputs, audio_file, audio_path, temp_file, fetched, entries, disk,
                   output, convs>>

\* 116-121: model.transcribe; return result["text"]
CatTranscribe ==
    /\ pc = "cat_transcribe"
    /\ calls' = Append(calls, "transcribe")
    /\ \/ \E t \in AsrTexts :
             /\ text' = Some(t)
             /\ pc' = "print"
             /\ UNCHANGED <<printed, escaped>>
       \/ TranscribeFailed("Exception")
    /\ UNCHANGED <<inputs, audio_file, audio_path, temp_file, fetched, entries, disk,
                   output, convs>>

(* ---------------------------- main, 185-186 --------------------------- *)

PrintText ==
    /\ pc = "print"
    /\ output' = IF text # None THEN text ELSE output
    /\ pc' = "done"
    /\ UNCHANGED <<inputs, audio_file, audio_path, temp_file, text, fetched, entries,
                   disk, printed, calls, convs, escaped>>

Next ==
    \/ Main
    \/ MainConvertMp4
    \/ GetYoutubeTranscript
    \/ DownloadStream
    \/ DownloadExport
    \/ DownloadRemove
    \/ CatDispatch
    \/ CatConvert
    \/ CatAudioLength
    \/ CatLoadModel
    \/ CatTranscribe
    \/ PrintText

Spec == Init /\ [][Next]_vars

(* ------------------------- vocabulary of the claims ------------------- *)

Called(name) == \E i \in DOMAIN calls : calls[i] = name

Count(name) == Cardinality({i \in DOMAIN calls : calls[i] = name})

Printed(msg) == \E i \in DOMAIN printed : printed[i] = msg

UrlRun == ~isfile /\ is_valid_youtube_url(source)

Finished == pc = "done"

Conversions == {"convert_mp3_to_wav", "convert_mp4_to_wav"}

\* where the i-th caption entry starts in a text with one separator
\* character between consecutive entries
RECURSIVE EntryStart(_, _)
EntryStart(es, i) ==
    IF i = 1 THEN 1 ELSE EntryStart(es, i - 1) + Len(es[i - 1]) + 1

\* t is the entries of es, in order, with exactly one space between
\* consecutive entries and nothing else
IsSpaceJoined(t, es) ==
    /\ Len(t) = IF es = <<>> THEN 0
                ELSE EntryStart(es, Len(es)) + Len(es[Len(es)]) - 1
    /\ \A i \in 1..Len(es) :
          SubSeq(t, EntryStart(es, i), EntryStart(es, i) + Len(es[i]) - 1) = es[i]
    /\ \A i \in 1..(Len(es) - 1) :
          t[EntryStart(es, i) + Len(es[i])] = " "

(* -------------------------------- claims ------------------------------ *)

\* C1: in a run on a valid YouTube URL that is not a file, without
\* ignore_transcript, once get_youtube_transcript has returned a transcript
\* neither download_youtube_audio_as_mp3 nor convert_audio_to_text is ever
\* invoked, and the text printed at the end is the caption entries in order
\* with exactly one space between consecutive entries.
C1_TranscriptIsTheOutput ==
    (UrlRun /\ ~ignore_transcript /\ fetched # None) =>
        /\ ~Called("download_youtube_audio_as_mp3")
        /\ ~Called("convert_audio_to_text")
        /\ pc \in {"print", "done"}
        /\ Finished => output # None /\ IsSpaceJoined(output[1], entries[1])

C1_Witness ==
    /\ UrlRun /\ ~ignore_transcript /\ Finished
    /\ fetched # None /\ output = fetched
    /\ Len(entries[1]) = 2 /\ entries[1][1] # <<>> /\ entries[1][2] # <<>>

\* C2: in a run on a valid YouTube URL without ignore_transcript the
\* transcript lookup is the first stage; when it returns None the next stage
\* is download_youtube_audio_as_mp3; when the download returns a path,
\* convert_audio_to_text is called on that path, and the text it returns, if
\* any, is what is printed.
C2_FallBackToDownload ==
    (UrlRun /\ ~ignore_transcript) =>
        /\ calls # <<>> => calls[1] = "get_youtube_transcript"
        /\ (Called("get_youtube_transcript") /\ fetched = None) =>
              /\ pc = "download" \/ (Len(calls) >= 2 /\ calls[2] = "download_youtube_audio_as_mp3")
              /\ audio_file # None =>
                    /\ audio_file = Some(VideoId \o MP3)
                    /\ pc = "cat_dispatch" \/
                          (Len(calls) >= 3 /\ calls[3] = "convert_audio_to_text")
                    /\ pc = "cat_dispatch" => audio_path = audio_file
              /\ Finished => output = text
              /\ output # None => Called("transcribe")

C2_Witness ==
    /\ UrlRun /\ ~ignore_transcript /\ Finished
    /\ Called("get_youtube_transcript") /\ fetched = None
    /\ Called("download_youtube_audio_as_mp3") /\ Called("convert_audio_to_text")
    /\ output # None

\* C3: in a run on a valid YouTube URL with ignore_transcript,
\* get_youtube_transcript is never invoked: the first stage is the download,
\* followed by convert_audio_to_text, and any text printed was returned by
\* the speech recognition.
C3_IgnoreTranscriptSkipsLookup ==
    (UrlRun /\ ignore_transcript) =>
        /\ ~Called("get_youtube_transcript")
        /\ pc # "fetch"
        /\ fetched = None /\ entries = None
        /\ calls # <<>> => calls[1] = "download_youtube_audio_as_mp3"
        /\ Len(calls) >= 2 => calls[2] = "convert_audio_to_text"
        /\ output # None => Called("transcribe") /\ output = text

C3_Witness ==
    /\ UrlRun /\ ignore_transcript /\ Finished
    /\ Called("download_youtube_audio_as_mp3") /\ output # None

\* C4: a source that is an existing file is handled as a local file, also
\* when it matches the YouTube URL pattern: neither get_youtube_transcript
\* nor download_youtube_audio_as_mp3 is ever invoked, whatever the flag.
C4_ExistingFileIsLocal ==
    isfile =>
        /\ ~Called("get_youtube_transcript")
        /\ ~Called("download_youtube_audio_as_mp3")
        /\ pc \notin {"fetch", "download", "dl_export", "dl_remove"}
        /\ disk \cap {VideoId \o MP4, VideoId \o MP3} \subseteq {source}

C4_Witness ==
    /\ isfile /\ is_valid_youtube_url(source) /\ ignore_transcript = FALSE
    /\ Finished /\ Called("convert_audio_to_text")

\* C5: whatever stages fail, no exception leaves main, the run can always
\* go on until main returns, and a run that ends without having printed a
\* text has printed at least one error message.
C5_FailuresArePrinted ==
    /\ ~escaped
    /\ pc # "crashed"
    /\ ~Finished => ENABLED Next
    /\ (Finished /\ output = None) => \E i \in DOMAIN printed : printed[i] \in ErrorMessages

C5_Witness ==
    /\ Finished /\ output = None
    /\ Printed(MsgNoTranscript) /\ Printed(MsgMp3) /\ Printed(MsgTranscribe)

\* C6: convert_audio_to_text on a path that ends in none of .wav, .mp3, .mp4
\* returns None without raising, having printed its error message, and
\* without invoking a conversion, get_audio_length, the model loading or the
\* transcription.
C6_Unsupported(path) ==
    ~EndsWith(path, WAV) /\ ~EndsWith(path, MP3) /\ ~EndsWith(path, MP4)

C6_UnsupportedExtensionFailsCleanly ==
    (Called("convert_audio_to_text") /\ C6_Unsupported(audio_file[1])) =>
        /\ ~escaped
        /\ pc \in {"print", "done"}
        /\ text = None /\ output = None
        /\ printed # <<>> /\ printed[Len(printed)] = MsgTranscribe
        /\ \A name \in Conversions \cup {"get_audio_length", "load_model", "transcribe"} :
              ~Called(name)

C6_Witness ==
    /\ Called("convert_audio_to_text") /\ C6_Unsupported(audio_file[1])
    /\ EndsWith(audio_file[1], TXT) /\ Finished

\* C7 as stated: the downloaded .mp4 is gone once the download has returned
\* its .mp3, and an .mp3 is gone once a .wav has been produced from it.
C7_IntermediatesDeleted ==
    /\ (temp_file # None /\ audio_file # None) => temp_file[1] \notin disk
    /\ \A i \in DOMAIN convs :
          (convs[i].fn = "convert_mp3_to_wav" /\ convs[i].out # None) =>
              convs[i].in \notin disk

\* C7, amended: whenever download_youtube_audio_as_mp3 returns a path, the
\* downloaded .mp4 has been removed and the .mp3 is on disk; the .mp3 is not
\* removed when the .wav is produced from it: after a successful
\* convert_mp3_to_wav both files are on disk, up to the end of the run.
C7_OnlyTheContainerIsDeleted ==
    /\ (temp_file # None /\ audio_file # None) =>
          /\ temp_file[1] \notin disk
          /\ audio_file[1] \in disk
    /\ \A i \in DOMAIN convs :
          (convs[i].fn = "convert_mp3_to_wav" /\ convs[i].out # None) =>
              /\ convs[i].in \in disk
              /\ convs[i].out[1] \in disk

C7_Witness ==
    /\ Finished /\ temp_file # None /\ audio_file # None
    /\ convs # <<>> /\ convs[1].fn = "convert_mp3_to_wav" /\ convs[1].out # None
    /\ disk = {VideoId \o MP3, VideoId \o WAV}

\* C8 as stated: a successful conversion returns the input path with only
\* its final extension changed to .wav, also when the extension occurs
\* elsewhere in the path.
C8_OnlyFinalExtensionChanges ==
    \A i \in DOMAIN convs :
        convs[i].out # None =>
            convs[i].out[1] = SubSeq(convs[i].in, 1, Len(convs[i].in) - 4) \o WAV

\* C9 as stated: is_valid_youtube_url is true exactly for an optional
\* http:// or https://, then www.youtube.com or youtu.be, then a slash and
\* at least one further character.
C9_Described(url) ==
    \E scheme \in {<<>>, HTTP \o COLON_SLASH_SLASH, HTTP \o <<"s">> \o COLON_SLASH_SLASH},
       host \in {WWW_YOUTUBE_COM, YOUTU \o <<".">> \o BE} :
        /\ MatchesAt(url, 1, scheme \o host \o SLASH)
        /\ Len(url) > Len(scheme \o host \o SLASH)

C9_ExactlyTheDescribedUrls ==
    pc # "main" => (is_valid_youtube_url(source) <=> C9_Described(source))

\* C10: in one run there is at most one transcript lookup, one download, one
\* conversion to .wav and one speech-recognition call, and they occur in the
\* order lookup, download, conversion, recognition; for a local .mp4 the
\* conversion is the one main runs before convert_audio_to_text, for an .mp3
\* it is the one convert_audio_to_text runs.
C10_Rank(name) ==
    CASE name = "get_youtube_transcript" -> 1
      [] name = "download_youtube_audio_as_mp3" -> 2
      [] name \in Conversions -> 3
      [] name = "transcribe" -> 4
      [] OTHER -> 0

C10_EachStageAtMostOnce ==
    /\ Count("get_youtube_transcript") <= 1
    /\ Count("download_youtube_audio_as_mp3") <= 1
    /\ Count("convert_mp3_to_wav") + Count("convert_mp4_to_wav") <= 1
    /\ Len(convs) <= 1
    /\ Count("transcribe") <= 1
    /\ Count("convert_audio_to_text") <= 1
    /\ \A i, j \in DOMAIN calls :
          (i < j /\ C10_Rank(calls[i]) > 0 /\ C10_Rank(calls[j]) > 0) =>
              C10_Rank(calls[i]) < C10_Rank(calls[j])
    /\ \A i, j \in DOMAIN calls :
          (calls[i] = "convert_audio_to_text" /\ calls[j] \in Conversions) =>
              IF isfile /\ EndsWith(source, MP4) THEN j < i ELSE i < j

C10_Witness ==
    /\ Finished /\ output # None
    /\ Called("get_youtube_transcript") /\ Called("download_youtube_audio_as_mp3")
    /\ Called("convert_mp3_to_wav") /\ Called("transcribe")

====
